---- MODULE Spec2Model ----
(***************************************************************************)
(* Order creation, notification dispatch and callback processing of the    *)
(* MDIST merch shop backend (orders/services.py, promos/services.py,       *)
(* telegram_bot/signals.py, telegram_bot/services/*.py, orders/views.py,   *)
(* run_bot_polling.py).                                                    *)
(*                                                                         *)
(* Money is held in hundredths (DECIMAL_PLACES = 2), percents in           *)
(* hundredths of a percent (PromoCode.percent has two decimal places).     *)
(* The database is the committed state: orders, items, notifications.      *)
(* Rows written inside the transaction.atomic block of create_order sit in *)
(* tx until the block commits.                                             *)
(***************************************************************************)
EXTENDS Integers, Sequences, FiniteSets, TLC

\* ---------------------------------------------------------------- bounds
\* orders committed, create_order calls that reach the insert, callback queries taken
\* and update_status requests made in one behaviour
MaxOrders == 1
MaxAttempts == 2
MaxCallbacks == 2
MaxUpdates == 1
\* the largest order id a notification is built for
MaxOrderId == 120

\* ------------------------------------------------------ program constants
STATUS_NEW == "new"
STATUS_CONTACTED == "contacted"
STATUS_CONFIRMED == "confirmed"
STATUS_CANCELED == "canceled"
STATUS_DELIVERED == "delivered"
STATUS_CHOICES ==
    {STATUS_NEW, STATUS_CONTACTED, STATUS_CONFIRMED, STATUS_CANCELED, STATUS_DELIVERED}

STATUS_PENDING == "pending"
STATUS_SENT == "sent"
STATUS_FAILED == "failed"

\* NULL of a nullable column / Python None
None == "None"
\* a nullable decimal column holding NULL
NoPrice == -1
\* a local that holds no row yet
NoRow == [null |-> TRUE]

\* ------------------------------------------------------------ small helpers
Put(f, k, v) == [x \in (DOMAIN f) \cup {k} |-> IF x = k THEN v ELSE f[x]]

Drop(f, k) == [x \in (DOMAIN f) \ {k} |-> f[x]]

EmptyMap == [x \in {} |-> 0]

Range(s) == {s[i] : i \in DOMAIN s}

\* Decimal.quantize(Decimal('0.01'), rounding=ROUND_HALF_UP) of the value n / scale
\* hundredths: the nearest hundredth, a trailing half going away from zero.
quantize(n, scale) == IF n >= 0 THEN (2 * n + scale) \div (2 * scale)
                      ELSE -((2 * (-n) + scale) \div (2 * scale))

\* ------------------------------------------------------------------ catalog
\* str.upper() / the iexact comparison, on the codes the model uses
upper(code) ==
    CASE code = "sale10" -> "SALE10"
      [] code = "Sale10" -> "SALE10"
      [] code = "old" -> "OLD"
      [] code = "off" -> "OFF"
      [] code = "third" -> "THIRD"
      [] code = "full" -> "FULL"
      [] code = "cent" -> "CENT"
      [] code = "from" -> "FROM"
      [] code = "until" -> "UNTIL"
      [] code = "soon" -> "SOON"
      [] OTHER -> code

\* Product.price_effective: discount_price if it is truthy (set and non-zero)
price_effective(p) == IF p.discount_price # NoPrice /\ p.discount_price # 0
                      THEN p.discount_price ELSE p.price

\* ----------------------------------------------------------------- pricing
\* deduplicate_items: quantities summed per product id, ids in order of first
\* occurrence (the insertion order of the dict)
RECURSIVE deduplicate_from(_, _)
deduplicate_from(items, acc) ==
    IF items = <<>> THEN acc
    ELSE LET it == Head(items)
             hit == {i \in DOMAIN acc : acc[i].product_id = it.product_id}
         IN IF hit = {}
            THEN deduplicate_from(Tail(items), Append(acc, it))
            ELSE LET i == CHOOSE j \in hit : TRUE
                 IN deduplicate_from(Tail(items),
                        [acc EXCEPT ![i].qty = acc[i].qty + it.qty])

\* (the cart taken as it is)
keep_lines(items) == items

deduplicate_items(items) == deduplicate_from(items, <<>>)

\* validate_and_get_products: the error of the first offending line, or "OK"
RECURSIVE first_product_error(_, _)
first_product_error(items, prods) ==
    IF items = <<>> THEN [code |-> "OK", id |-> 0]
    ELSE LET pid == Head(items).product_id
         IN IF pid \notin DOMAIN prods
            THEN [code |-> "PRODUCT_NOT_FOUND", id |-> pid]
            ELSE IF ~prods[pid].is_active
            THEN [code |-> "PRODUCT_INACTIVE", id |-> pid]
            ELSE first_product_error(Tail(items), prods)

\* (a validation that reports a missing product before any inactive one)
validate_missing_first(items, prods) ==
    IF items = <<>> THEN [code |-> "EMPTY_CART", id |-> 0]
    ELSE LET missing == {i \in DOMAIN items : items[i].product_id \notin DOMAIN prods}
         IN IF missing # {}
            THEN [code |-> "PRODUCT_NOT_FOUND",
                  id |-> items[CHOOSE i \in missing : \A j \in missing : i <= j].product_id]
            ELSE first_product_error(items, prods)

validate_and_get_products(items, prods) ==
    IF items = <<>> THEN [code |-> "EMPTY_CART", id |-> 0]
    ELSE first_product_error(items, prods)

\* Product.objects.filter(id__in=product_ids): the rows fetched for the cart
products_by_id(items, prods) ==
    [pid \in {it.product_id : it \in Range(items)} \cap DOMAIN prods |-> prods[pid]]

RECURSIVE subtotal_sum(_, _)
subtotal_sum(items, byId) ==
    IF items = <<>> THEN 0
    ELSE price_effective(byId[Head(items).product_id]) * Head(items).qty
         + subtotal_sum(Tail(items), byId)

\* (a subtotal that counts every line once, whatever its quantity)
calculate_subtotal_of_unit_prices(items, byId) ==
    quantize(subtotal_sum([i \in DOMAIN items |-> [items[i] EXCEPT !.qty = 1]], byId), 1)

calculate_subtotal(items, byId) == quantize(subtotal_sum(items, byId), 1)

\* (a lookup that compares the code as given)
validate_promo_exact(code, proms, t) ==
    IF code \notin DOMAIN proms THEN "PROMO_NOT_FOUND"
    ELSE IF ~proms[code].is_active THEN "PROMO_INACTIVE"
    ELSE IF proms[code].has_date_window
            /\ ~(proms[code].active_from <= t /\ t <= proms[code].active_to)
    THEN "PROMO_EXPIRED"
    ELSE "OK"

\* PromoService.validate_promo at time t: an error code, or "OK"
validate_promo(code, proms, t) ==
    LET key == upper(code)
    IN IF key \notin DOMAIN proms THEN "PROMO_NOT_FOUND"
       ELSE IF ~proms[key].is_active THEN "PROMO_INACTIVE"
       ELSE IF proms[key].has_date_window
               /\ ~(proms[key].active_from <= t /\ t <= proms[key].active_to)
       THEN "PROMO_EXPIRED"
       ELSE "OK"

\* PromoService.calculate_discount: subtotal * percent / 100, half-up to 0.01
calculate_discount(subtotal, percent) == quantize(subtotal * percent, 10000)

\* steps 1-4 of create_order: the priced cart, or the error raised
price_cart(rawItems, promo_code, prods, proms, t) ==
    LET its == deduplicate_items(rawItems)
        verr == validate_and_get_products(its, prods)
    IN IF verr.code # "OK"
       THEN [code |-> verr.code, id |-> verr.id]
       ELSE LET byId == products_by_id(its, prods)
                sub == calculate_subtotal(its, byId)
            IN IF promo_code = None \/ promo_code = ""
               THEN [code |-> "OK", items |-> its, products |-> byId, subtotal |-> sub,
                     promo |-> None, discount_total |-> 0, total |-> sub]
               ELSE LET perr == validate_promo(promo_code, proms, t)
                    IN IF perr # "OK"
                       THEN [code |-> perr, id |-> 0]
                       ELSE LET d == calculate_discount(sub, proms[upper(promo_code)].percent)
                            IN [code |-> "OK", items |-> its, products |-> byId,
                                subtotal |-> sub, promo |-> upper(promo_code),
                                discount_total |-> d, total |-> sub - d]

\* (order lines that snapshot the base price)
order_items_at_base_price(id, its, byId) ==
    {[order |-> id,
      product |-> it.product_id,
      name_snapshot |-> byId[it.product_id].name,
      price_snapshot |-> byId[it.product_id].price,
      qty |-> it.qty,
      line_total |-> quantize(byId[it.product_id].price * it.qty, 1)]
     : it \in Range(its)}

\* step 6 of create_order: the OrderItem rows built from the validated products
order_items(id, its, byId) ==
    {[order |-> id,
      product |-> it.product_id,
      name_snapshot |-> byId[it.product_id].name,
      price_snapshot |-> price_effective(byId[it.product_id]),
      qty |-> it.qty,
      line_total |-> quantize(price_effective(byId[it.product_id]) * it.qty, 1)]
     : it \in Range(its)}

\* ------------------------------------------------------------------- state
VARIABLES
    products,       \* catalog: product id -> Product row
    promos,         \* PromoCode rows by (upper-case) code
    now,            \* timezone.now()
    botConfig,      \* BotConfig.objects.first(): "none", "inactive" or "active"
    orders,         \* committed Order rows: id -> row
    items,          \* committed OrderItem rows
    notifications,  \* committed GroupNotification rows: pk -> row
    seq,            \* the database sequences and the channel's message counter
    tx,             \* the open transaction of the create_order call in flight
    dispatch,       \* the running _send_notification_async threads (threads at the
                    \* same position for the same order are one element)
    cb,             \* the callback query the polling worker is handling
    us,             \* the update_status request in flight
    channel,        \* messages the external channel accepted: message id -> order id
    preview,        \* the promo preview request being answered
    hist            \* history: what the calls so far did (read by the properties only)

vars == <<products, promos, now, botConfig, orders, items, notifications, seq, tx,
          dispatch, cb, us, channel, preview, hist>>

\* what the order, notification and callback handlers only read (the preview is
\* answered by its own view)
catalogVars == <<products, promos, now, botConfig, preview>>

\* ------------------------------------------------------------------ inputs
Line(p, q) == [product_id |-> p, qty |-> q]

\* the create_order requests tried: a cart and a promo code
Requests ==
    { <<<<Line(1, 2)>>, "sale10">>,
      <<<<Line(2, 1), Line(2, 2)>>, None>>,
      <<<<>>, None>>,
      <<<<Line(1, 1), Line(3, 1)>>, None>>,
      <<<<Line(4, 1), Line(3, 1)>>, "sale10">>,
      <<<<Line(1, 2)>>, "old">>,
      <<<<Line(1, 2)>>, "off">>,
      <<<<Line(1, 2)>>, "nope">> }

Idle == [pc |-> "idle"]

ItemsOf(its, id) == {it \in its : it.order = id}

NotificationsOf(ns, id) == {n \in DOMAIN ns : ns[n].order = id}

Init ==
    /\ products = (1 :> [name |-> "Hoodie", price |-> 10000, discount_price |-> NoPrice,
                         is_active |-> TRUE]
                @@ 2 :> [name |-> "Cap", price |-> 999, discount_price |-> 255,
                         is_active |-> TRUE]
                @@ 3 :> [name |-> "Mug", price |-> 500, discount_price |-> NoPrice,
                         is_active |-> FALSE])
    /\ promos = ("SALE10" :> [percent |-> 1000, is_active |-> TRUE,
                              has_date_window |-> FALSE, active_from |-> 0, active_to |-> 0]
              @@ "OLD" :> [percent |-> 2500, is_active |-> TRUE,
                           has_date_window |-> TRUE, active_from |-> 1, active_to |-> 2]
              @@ "OFF" :> [percent |-> 5000, is_active |-> FALSE,
                           has_date_window |-> FALSE, active_from |-> 0, active_to |-> 0])
    /\ now = 5
    /\ botConfig \in {"none", "inactive", "active"}
    /\ orders = EmptyMap
    /\ items = {}
    /\ notifications = EmptyMap
    /\ seq = [order |-> 1, notification |-> 1, message |-> 1]
    /\ tx = Idle
    /\ dispatch = {}
    /\ cb = Idle
    /\ us = Idle
    /\ channel = EmptyMap
    /\ preview = Idle
    /\ hist = [lastWrite |-> EmptyMap, deleted |-> {}, notifLog |-> EmptyMap,
               escaped |-> FALSE, callbacks |-> 0, updates |-> 0]

\* ------------------------------------------------- create_order (orders/services.py)
\* (a save that writes only when no one wrote since the row was read: first write wins)
save_unless_exists(ord, id, row) == IF id \in DOMAIN ord THEN ord ELSE Put(ord, id, row)

\* Model.save(): UPDATE the row with this pk, and INSERT it when no row matched
save(ord, id, row) == Put(ord, id, row)

\* post_save's created flag of that save: no row was updated
created(ord, id) == id \notin DOMAIN ord

\* (a create_order that is not atomic: the rows written so far stay)
rollback_without_atomic(committed, uncommitted) == uncommitted

\* what the atomic block leaves of the committed tables when it rolls back
rollback(committed, uncommitted) == committed

\* (callbacks run when the block ends, whether it committed or not)
on_commit_regardless(callbacks, committed) == callbacks

\* the on_commit callbacks that run when the block ends: all on commit, none on rollback
on_commit(callbacks, committed) == IF committed THEN callbacks ELSE {}

\* the callbacks that run while the block is still open: none
on_commit_inside_block(callbacks) == {}

\* send_after_commit: a daemon thread running _send_notification_async(order_id)
Thread(id) == [id |-> id, pc |-> "get_order", nid |-> 0, notification |-> NoRow,
               error |-> None]

\* steps 1-5: deduplicate, validate, subtotal, promo (an error leaves the block at
\* once), then Order.objects.create(...), whose post_save registers send_after_commit
CreateInsertOrder(cart, promo_code) ==
    /\ tx.pc = "idle"
    /\ seq.order <= MaxAttempts
    /\ Cardinality(DOMAIN hist.lastWrite) < MaxOrders
    /\ LET r == price_cart(cart, promo_code, products, promos, now)
           id == seq.order
       IN IF r.code # "OK"
          THEN /\ tx' = [pc |-> "raised", cart |-> cart, promo_code |-> promo_code,
                         code |-> r.code, id |-> r.id]
               /\ UNCHANGED <<seq, dispatch>>
          ELSE /\ tx' = [pc |-> "order_inserted", cart |-> cart,
                         promo_code |-> promo_code, priced |-> r, id |-> id,
                         order |-> [status |-> STATUS_NEW, full_name |-> "customer",
                                    payment_method |-> "cash", promo |-> r.promo,
                                    subtotal |-> r.subtotal,
                                    discount_total |-> r.discount_total,
                                    total |-> r.total],
                         on_commit |-> {id}]
               /\ seq' = [seq EXCEPT !.order = id + 1]
               /\ dispatch' = dispatch
                              \cup {Thread(i) : i \in on_commit_inside_block({id})}
    /\ UNCHANGED <<catalogVars, orders, items, notifications, cb, us, channel, hist>>

\* step 6 and the end of the atomic block: bulk_create, commit, on_commit callbacks
CreateItemsCommit ==
    /\ tx.pc = "order_inserted"
    /\ orders' = Put(orders, tx.id, tx.order)
    /\ items' = items \cup order_items(tx.id, tx.priced.items, tx.priced.products)
    /\ dispatch' = dispatch \cup {Thread(i) : i \in on_commit(tx.on_commit, TRUE)}
    /\ hist' = [hist EXCEPT !.lastWrite = Put(hist.lastWrite, tx.id, STATUS_NEW)]
    /\ tx' = Idle
    /\ UNCHANGED <<catalogVars, notifications, seq, cb, us, channel>>

\* an exception leaves the atomic block: one of steps 1-4, or one raised after the
\* subtotal is computed and before the bulk insert; the block rolls back
CreateFailure ==
    /\ tx.pc \in {"raised", "order_inserted"}
    /\ orders' = rollback(orders, IF tx.pc = "order_inserted"
                                  THEN Put(orders, tx.id, tx.order) ELSE orders)
    /\ dispatch' = dispatch
                   \cup {Thread(i) : i \in on_commit(IF tx.pc = "order_inserted"
                                                    THEN tx.on_commit ELSE {}, FALSE)}
    /\ tx' = Idle
    /\ UNCHANGED <<catalogVars, items, notifications, seq, cb, us, channel, hist>>

\* ------------------------------ notification dispatch (signals.py, notification.py)
\* (the except clauses without the NotificationFailedError and Exception ones)
except_bot_errors_only(exc) ==
    CASE exc = "Order.DoesNotExist" -> "except Order.DoesNotExist"
      [] exc \in {"BotNotConfiguredError", "BotInactiveError"} -> "except Bot errors"
      [] OTHER -> "escapes"

\* the except clauses of _send_notification_async: which one catches exception exc
\* ("escapes" when none does)
send_notification_async_except(exc) ==
    CASE exc = "Order.DoesNotExist" -> "except Order.DoesNotExist"
      [] exc \in {"BotNotConfiguredError", "BotInactiveError"} -> "except Bot errors"
      [] exc = "NotificationFailedError" -> "except NotificationFailedError"
      [] OTHER -> "except Exception"

\* the thread ends with exception exc raised inside the try of _send_notification_async
Raised(h, exc) ==
    [h EXCEPT !.escaped = @ \/ send_notification_async_except(exc) = "escapes"]

\* (a save into a table without the foreign key to Order)
notification_save_unchecked(ns, ord, nid, row) ==
    IF nid \in DOMAIN ns THEN "update" ELSE "insert"

\* Model.save() of a GroupNotification: "update" when the row is there, "insert"
\* when it is not and the order it references is, else the foreign key fails
notification_save(ns, ord, nid, row) ==
    IF nid \in DOMAIN ns THEN "update"
    ELSE IF row.order \in DOMAIN ord THEN "insert"
    ELSE "IntegrityError"

Logged(h, nid, row) ==
    [h EXCEPT !.notifLog =
        Put(h.notifLog, nid,
            [order |-> row.order,
             writes |-> Append(IF nid \in DOMAIN h.notifLog THEN h.notifLog[nid].writes
                               ELSE <<>>, row.status)])]

\* (a configuration lookup that does not look at is_active)
get_config_ignoring_is_active(config) ==
    IF config = "none" THEN "BotNotConfiguredError" ELSE "OK"

\* BotConfig.objects.first() and the two checks on it: the exception raised, or "OK"
get_config(config) ==
    IF config = "none" THEN "BotNotConfiguredError"
    ELSE IF config = "inactive" THEN "BotInactiveError"
    ELSE "OK"

\* str(e) of the exceptions of telegram_bot/exceptions.py
error_text(exc) ==
    CASE exc = "BotNotConfiguredError" ->
             "Telegram bot is not configured. Please configure bot in admin panel."
      [] exc = "BotInactiveError" ->
             "Telegram bot is inactive. Please enable bot in admin panel."
      [] OTHER -> exc

\* order = Order.objects.get(id=order_id)
DispGetOrder(d) ==
    /\ d.pc = "get_order"
    /\ IF d.id \in DOMAIN orders
       THEN /\ dispatch' = (dispatch \ {d}) \cup {[d EXCEPT !.pc = "create_notification"]}
            /\ hist' = hist
       ELSE /\ dispatch' = dispatch \ {d}
            /\ hist' = Raised(hist, "Order.DoesNotExist")
    /\ UNCHANGED <<catalogVars, orders, items, notifications, seq, tx, cb, us, channel>>

\* GroupNotification.objects.create(order=order, status=STATUS_PENDING), outside the try
DispCreateNotification(d) ==
    /\ d.pc = "create_notification"
    /\ LET nid == seq.notification
           row == [order |-> d.id, status |-> STATUS_PENDING, message_id |-> None,
                   error_message |-> None]
       IN IF notification_save(notifications, orders, nid, row) = "IntegrityError"
          THEN /\ dispatch' = dispatch \ {d}
               /\ hist' = Raised(hist, "IntegrityError")
               /\ UNCHANGED <<notifications, seq>>
          ELSE /\ notifications' = Put(notifications, nid, row)
               /\ seq' = [seq EXCEPT !.notification = nid + 1]
               /\ dispatch' = (dispatch \ {d})
                              \cup {[d EXCEPT !.pc = "send", !.nid = nid,
                                              !.notification = row]}
               /\ hist' = Logged(hist, nid, row)
    /\ UNCHANGED <<catalogVars, orders, items, tx, cb, us, channel>>

\* _get_config() and, when the bot is configured and active, format_order_message and
\* TelegramService.send_message(...): the channel accepts the message and returns its
\* id (ok), or the call raises TelegramError
DispSend(d, ok) ==
    /\ d.pc = "send"
    /\ LET r == get_config(botConfig)
       IN IF r # "OK"
          THEN /\ dispatch' = (dispatch \ {d})
                              \cup {[d EXCEPT !.pc = "save_failed", !.error = error_text(r)]}
               /\ UNCHANGED <<channel, seq>>
          ELSE IF ok
          THEN /\ channel' = Put(channel, seq.message, d.id)
               /\ seq' = [seq EXCEPT !.message = @ + 1]
               /\ dispatch' = (dispatch \ {d})
                              \cup {[d EXCEPT !.pc = "save_sent",
                                              !.notification.status = STATUS_SENT,
                                              !.notification.message_id =
                                                  ToString(seq.message)]}
          ELSE /\ dispatch' = (dispatch \ {d})
                              \cup {[d EXCEPT !.pc = "save_failed", !.error = "Test error"]}
               /\ UNCHANGED <<channel, seq>>
    /\ UNCHANGED <<catalogVars, orders, items, notifications, tx, cb, us, hist>>

\* notification.status = STATUS_SENT; notification.message_id = ...; notification.save()
DispSaveSent(d) ==
    /\ d.pc = "save_sent"
    /\ IF notification_save(notifications, orders, d.nid, d.notification) = "IntegrityError"
       THEN /\ dispatch' = (dispatch \ {d})
                           \cup {[d EXCEPT !.pc = "save_failed", !.error = "IntegrityError"]}
            /\ UNCHANGED <<notifications, hist>>
       ELSE /\ notifications' = Put(notifications, d.nid, d.notification)
            /\ dispatch' = dispatch \ {d}
            /\ hist' = Logged(hist, d.nid, d.notification)
    /\ UNCHANGED <<catalogVars, orders, items, seq, tx, cb, us, channel>>

\* the except branch: status = STATUS_FAILED, error_message = str(e), save(), and
\* raise NotificationFailedError
DispSaveFailed(d) ==
    /\ d.pc = "save_failed"
    /\ LET row == [d.notification EXCEPT !.status = STATUS_FAILED,
                                         !.error_message = d.error]
       IN IF notification_save(notifications, orders, d.nid, row) = "IntegrityError"
          THEN /\ hist' = Raised(hist, "IntegrityError")
               /\ UNCHANGED notifications
          ELSE /\ notifications' = Put(notifications, d.nid, row)
               /\ hist' = Raised(Logged(hist, d.nid, row), "NotificationFailedError")
    /\ dispatch' = dispatch \ {d}
    /\ UNCHANGED <<catalogVars, orders, items, seq, tx, cb, us, channel>>

\* ------------------------------------------- callback processing (webhook.py)
\* callback_data as the dispatcher builds it (notification.py): f"order_success_{order.id}"
\* and f"order_cancel_{order.id}", held as <<prefix, rest>>
callback_data(prefix, id) == <<prefix, ToString(id)>>

\* Order.objects.get(id=order_id) takes the string left after the prefix is removed
\* and converts it to a number; 0 stands for a string that is no number (ValueError)
to_python(s) ==
    IF \E n \in 1..(MaxAttempts + 1) : ToString(n) = s
    THEN CHOOSE n \in 1..(MaxAttempts + 1) : ToString(n) = s
    ELSE 0

CallbackInputs ==
    {callback_data(a, i) : a \in {"order_success_", "order_cancel_"}, i \in 1..MaxAttempts}
    \cup {<<"order_success_", "x">>, <<"help", "">>, <<"test_success", "">>}

\* the methods class TelegramService defines (telegram.py)
TelegramServiceMethods ==
    {"get_bot_config", "get_bot", "send_message", "set_webhook", "delete_webhook",
     "get_webhook_info"}

\* the handler is about to call query.answer(notice); found tells whether its
\* _get_order() returned a row
Answer(handler, id, found, notice) ==
    [pc |-> "answer", handler |-> handler, id |-> id, found |-> found, answer |-> notice]

\* _handle_order_success / _handle_order_cancel up to the read of the order: the
\* handler's next position. Order.objects.get raises ValueError for an id that is no
\* number, which the handler's except Exception answers with its error notice.
handle_order(prefix, order_id, ord) ==
    LET id == to_python(order_id)
        handler == IF prefix = "order_success_" THEN "_handle_order_success"
                   ELSE "_handle_order_cancel"
    IN IF id = 0
       THEN Answer(handler, id, FALSE, IF prefix = "order_success_" THEN "error_close"
                                       ELSE "error_cancel")
       ELSE IF id \notin DOMAIN ord
       THEN Answer(handler, id, FALSE, "not_found")
       ELSE [pc |-> IF prefix = "order_success_" THEN "update_order" ELSE "delete_order",
             id |-> id, order |-> ord[id]]

\* run_bot_polling.handle_callback_query: the branch taken for callback_data
handle_callback_query(data, ord) ==
    IF data[1] \in {"order_success_", "order_cancel_"}
    THEN handle_order(data[1], data[2], ord)
    ELSE IF data \in {<<"test_success", "">>, <<"test_cancel", "">>}
    THEN [pc |-> "edit_message", id |-> 0]
    ELSE Answer("handle_callback_query", 0, FALSE, "unknown")

\* WebhookService._handle_callback_query: the branch taken for callback_data
webhook_handle_callback_query(data, ord) ==
    IF data[1] \in {"order_success_", "order_cancel_"}
    THEN handle_order(data[1], data[2], ord)
    ELSE Answer("_handle_callback_query", 0, FALSE, "unknown")

\* what follows a query.answer(...) that raised, by the place of the call: inside the
\* handler's try (its except branch answers the error notice), inside a try/except
\* that passes (the handler is done), or bare inside the except branch of
\* _handle_order_cancel (the exception leaves the handler)
answer_raised(c) ==
    IF c.handler = "_handle_order_success"
    THEN IF c.answer = "not_found"
         THEN Answer(c.handler, c.id, c.found, "error_close")
         ELSE Idle
    ELSE IF c.handler = "_handle_order_cancel"
    THEN IF c.answer \in {"not_found", "canceled"}
         THEN Answer(c.handler, c.id, c.found, "error_cancel")
         ELSE [pc |-> "raised", handler |-> c.handler, id |-> c.id, found |-> c.found]
    ELSE Idle

\* the polling worker takes the next callback query (updates are handled one at a time)
CbReceive(data) ==
    /\ cb.pc = "idle"
    /\ hist.callbacks < MaxCallbacks
    /\ cb' = handle_callback_query(data, orders)
    /\ hist' = [hist EXCEPT !.callbacks = @ + 1]
    /\ UNCHANGED <<catalogVars, orders, items, notifications, seq, tx, dispatch, us,
                   channel>>

\* _handle_order_success._update_order: order.status = STATUS_CONFIRMED; order.save();
\* then the message edit, which may raise
CbUpdateOrder(editOk) ==
    /\ cb.pc = "update_order"
    /\ LET row == [cb.order EXCEPT !.status = STATUS_CONFIRMED]
       IN /\ orders' = save(orders, cb.id, row)
          /\ dispatch' = dispatch \cup (IF created(orders, cb.id) THEN {Thread(cb.id)}
                                        ELSE {})
          /\ hist' = [hist EXCEPT !.lastWrite = Put(hist.lastWrite, cb.id, row.status)]
    /\ cb' = Answer("_handle_order_success", cb.id, TRUE,
                    IF editOk THEN "closed" ELSE "error_close")
    /\ UNCHANGED <<catalogVars, items, notifications, seq, tx, us, channel>>

\* order_info, the summary the cancel handler formats from the order it read
order_info(id, order) == [order_id |-> id, full_name |-> order.full_name,
                          total |-> order.total]

\* (a delete that is not filtered by the id)
delete_every_order(ord, id) == EmptyMap

\* Order.objects.filter(id=order_id).delete(): the row, and by on_delete=CASCADE its
\* OrderItems and GroupNotifications
delete_order(ord, id) == Drop(ord, id)

\* _handle_order_cancel._delete_order, then the message edit, which may raise
CbDeleteOrder(editOk) ==
    /\ cb.pc = "delete_order"
    /\ orders' = delete_order(orders, cb.id)
    /\ items' = items \ ItemsOf(items, cb.id)
    /\ notifications' = [n \in (DOMAIN notifications) \ NotificationsOf(notifications, cb.id)
                           |-> notifications[n]]
    /\ hist' = [hist EXCEPT !.deleted = @ \cup {cb.id}]
    /\ cb' = IF editOk
             THEN Answer("_handle_order_cancel", cb.id, TRUE, "canceled")
                  @@ [edited |-> order_info(cb.id, cb.order)]
             ELSE Answer("_handle_order_cancel", cb.id, TRUE, "error_cancel")
    /\ UNCHANGED <<catalogVars, seq, tx, dispatch, us, channel>>

\* query.answer(notice): the notice is shown and the handler is done (ackOk), or the
\* call raises
CbAnswer(ackOk) ==
    /\ cb.pc = "answer"
    /\ cb' = IF ackOk THEN Idle ELSE answer_raised(cb)
    /\ UNCHANGED <<catalogVars, orders, items, notifications, seq, tx, dispatch, us,
                   channel, hist>>

\* the except Exception of handle_callback_query catches what left the handler and
\* answers its own error notice, inside a try/except that passes
CbCaught ==
    /\ cb.pc = "raised"
    /\ cb' = Answer("handle_callback_query", cb.id, cb.found, "error")
    /\ UNCHANGED <<catalogVars, orders, items, notifications, seq, tx, dispatch, us,
                   channel, hist>>

\* the test buttons: query.edit_message_text(...) and no notice; an edit that raises
\* ends in the except Exception of handle_callback_query
CbEditMessage(editOk) ==
    /\ cb.pc = "edit_message"
    /\ cb' = IF editOk THEN Idle ELSE Answer("handle_callback_query", cb.id, FALSE, "error")
    /\ UNCHANGED <<catalogVars, orders, items, notifications, seq, tx, dispatch, us,
                   channel, hist>>

\* (a process_update whose except clause catches the channel library's errors only)
process_update_except_telegram_error(exc) ==
    IF exc = "TelegramError" THEN [status |-> "error", message |-> exc]
    ELSE [status |-> "raised", message |-> exc]

\* the except Exception of process_update: the result returned for exception exc
process_update_except(exc) == [status |-> "error", message |-> exc]

\* the webhook view hands an update to WebhookService.process_update (a deployment
\* receives its updates either by webhook or by polling)
WebhookReceive(data) ==
    /\ cb.pc = "idle"
    /\ cb' = [pc |-> "process_update", data |-> data]
    /\ UNCHANGED <<catalogVars, orders, items, notifications, seq, tx, dispatch, us,
                   channel, hist>>

\* WebhookService.process_update: TelegramService.get_bot_config_async() is looked up
\* inside the try; the AttributeError ends in the except branch, which returns
\* {'status': 'error', 'message': str(e)}
WebhookProcessUpdate ==
    /\ cb.pc = "process_update"
    /\ cb' = IF "get_bot_config_async" \in TelegramServiceMethods
             THEN webhook_handle_callback_query(cb.data, orders)
             ELSE [pc |-> "returned", data |-> cb.data,
                   result |-> process_update_except("AttributeError")]
    /\ UNCHANGED <<catalogVars, orders, items, notifications, seq, tx, dispatch, us,
                   channel, hist>>

\* the webhook view answers the transport with JsonResponse(result)
WebhookReturn ==
    /\ cb.pc = "returned"
    /\ cb' = Idle
    /\ UNCHANGED <<catalogVars, orders, items, notifications, seq, tx, dispatch, us,
                   channel, hist>>

\* ------------------------------------------- update_status (orders/views.py)
StatusInputs == {STATUS_CONTACTED, STATUS_CANCELED, "", "shipped"}

\* (a validation that takes every status that is not empty)
update_status_taking_any(ord, id, new_status) ==
    IF id \notin DOMAIN ord
    THEN [http |-> 404, error_code |-> "ORDER_NOT_FOUND"]
    ELSE IF new_status = ""
    THEN [http |-> 400, error_code |-> "VALIDATION_ERROR",
          valid_statuses |-> STATUS_CHOICES]
    ELSE [http |-> 200]

\* update_status up to the save: the error response returned, or http 200 when the
\* request goes on to the save ("" stands for a missing or empty status)
update_status(ord, id, new_status) ==
    IF id \notin DOMAIN ord
    THEN [http |-> 404, error_code |-> "ORDER_NOT_FOUND"]
    ELSE IF new_status = ""
    THEN [http |-> 400, error_code |-> "VALIDATION_ERROR",
          valid_statuses |-> STATUS_CHOICES]
    ELSE IF new_status \notin STATUS_CHOICES
    THEN [http |-> 400, error_code |-> "INVALID_STATUS",
          valid_statuses |-> STATUS_CHOICES]
    ELSE [http |-> 200]

\* the request is answered: the view is idle again, and what it was asked and what it
\* answered stay on record
Responded(id, new_status, response) ==
    [pc |-> "idle", id |-> id, new_status |-> new_status, response |-> response]

\* order = self.get_queryset().get(pk=pk) and the validation of request.data['status']:
\* a 404 or 400 response ends the request here
UsRead(id, new_status) ==
    /\ us.pc = "idle"
    /\ hist.updates < MaxUpdates
    /\ us' = IF update_status(orders, id, new_status).http = 200
             THEN [pc |-> "save", id |-> id, order |-> orders[id],
                   new_status |-> new_status]
             ELSE Responded(id, new_status, update_status(orders, id, new_status))
    /\ hist' = [hist EXCEPT !.updates = @ + 1]
    /\ UNCHANGED <<catalogVars, orders, items, notifications, seq, tx, dispatch, cb,
                   channel>>

\* old_status = order.status; order.status = new_status; order.save(); the response
\* echoes both
UsSave ==
    /\ us.pc = "save"
    /\ LET row == [us.order EXCEPT !.status = us.new_status]
       IN /\ orders' = save(orders, us.id, row)
          /\ dispatch' = dispatch \cup (IF created(orders, us.id) THEN {Thread(us.id)}
                                        ELSE {})
          /\ hist' = [hist EXCEPT !.lastWrite = Put(hist.lastWrite, us.id, row.status)]
    /\ us' = Responded(us.id, us.new_status,
                       [http |-> 200, order_id |-> us.id,
                        old_status |-> us.order.status, new_status |-> us.new_status])
    /\ UNCHANGED <<catalogVars, items, notifications, seq, tx, cb, channel>>

\* ------------------------------------------------ order admin (orders/admin.py)
\* the customer names the staff enter in the change form
AdminNames == {"customer (corrected)"}

\* OrderAdmin's change form is saved: the row is read, the form's fields are set on it
\* and it is saved, all in the one transaction of the admin view
AdminSaveOrder(id, full_name) ==
    /\ id \in DOMAIN orders
    /\ orders[id].full_name # full_name
    /\ orders' = save(orders, id, [orders[id] EXCEPT !.full_name = full_name])
    /\ UNCHANGED <<catalogVars, items, notifications, seq, tx, dispatch, cb, us, channel,
                   hist>>

\* --------------------------------------------- promo preview (promos/views.py)
\* str(Decimal) of an amount with two decimal places
str(n) == ToString(n \div 100) \o "." \o (IF n % 100 < 10 THEN "0" ELSE "")
          \o ToString(n % 100)

\* (an invalid promo answered as a bad request)
promo_error_as_bad_request(cart, error_code, prods) ==
    [http |-> 400, error_code |-> error_code]

\* the except branch for PromoNotFoundError, PromoInactiveError and PromoExpiredError:
\* the subtotal is computed again and returned as subtotal and as total
promo_error_response(cart, error_code, prods) ==
    LET its == deduplicate_items(cart)
        verr == validate_and_get_products(its, prods)
        subtotal == IF verr.code = "OK"
                    THEN calculate_subtotal(its, products_by_id(its, prods))
                    ELSE 0
    IN [http |-> 200, is_valid |-> FALSE, error_code |-> error_code,
        subtotal |-> str(subtotal), discount |-> "0.00", total |-> str(subtotal)]

\* (a preview that prices the first line of the cart only)
promo_validate_of_first_line(cart, code, prods, proms, t) ==
    IF cart = <<>> \/ code \in {None, ""}
    THEN [http |-> 400, error_code |-> "VALIDATION_ERROR"]
    ELSE LET r == price_cart(<<Head(cart)>>, code, prods, proms, t)
         IN IF r.code # "OK"
            THEN [http |-> 400, error_code |-> r.code]
            ELSE [http |-> 200, is_valid |-> TRUE,
                  promo |-> [code |-> r.promo, percent |-> proms[r.promo].percent],
                  subtotal |-> str(r.subtotal), discount |-> str(r.discount_total),
                  total |-> str(r.total)]

\* PromoValidateView.post: the response to a request with these items and this code
promo_validate(cart, code, prods, proms, t) ==
    IF cart = <<>> \/ code \in {None, ""}
    THEN [http |-> 400, error_code |-> "VALIDATION_ERROR"]
    ELSE LET its == deduplicate_items(cart)
             verr == validate_and_get_products(its, prods)
         IN IF verr.code # "OK"
            THEN [http |-> 400, error_code |-> verr.code]
            ELSE LET subtotal == calculate_subtotal(its, products_by_id(its, prods))
                     perr == validate_promo(code, proms, t)
                 IN IF perr # "OK"
                    THEN promo_error_response(its, perr, prods)
                    ELSE LET d == calculate_discount(subtotal, proms[upper(code)].percent)
                         IN [http |-> 200, is_valid |-> TRUE,
                             promo |-> [code |-> upper(code),
                                        percent |-> proms[upper(code)].percent],
                             subtotal |-> str(subtotal), discount |-> str(d),
                             total |-> str(subtotal - d)]

\* POST /api/v1/promos/validate
PromoValidate(cart, code) ==
    /\ preview.pc = "idle"
    /\ preview' = [pc |-> "response", cart |-> cart, code |-> code,
                   response |-> promo_validate(cart, code, products, promos, now)]
    /\ UNCHANGED <<products, promos, now, botConfig, orders, items, notifications, seq,
                   tx, dispatch, cb, us, channel, hist>>

\* the response is sent
PromoValidateRespond ==
    /\ preview.pc = "response"
    /\ preview' = Idle
    /\ UNCHANGED <<products, promos, now, botConfig, orders, items, notifications, seq,
                   tx, dispatch, cb, us, channel, hist>>

\* ------------------------------------------------------------ specification
Next ==
    \/ \E r \in Requests : CreateInsertOrder(r[1], r[2])
    \/ CreateItemsCommit
    \/ CreateFailure
    \/ \E d \in dispatch : DispGetOrder(d)
    \/ \E d \in dispatch : DispCreateNotification(d)
    \/ \E d \in dispatch, ok \in BOOLEAN : DispSend(d, ok)
    \/ \E d \in dispatch : DispSaveSent(d)
    \/ \E d \in dispatch : DispSaveFailed(d)
    \/ \E data \in CallbackInputs : CbReceive(data)
    \/ \E editOk \in BOOLEAN : CbUpdateOrder(editOk)
    \/ \E editOk \in BOOLEAN : CbDeleteOrder(editOk)
    \/ \E ackOk \in BOOLEAN : CbAnswer(ackOk)
    \/ CbCaught
    \/ \E editOk \in BOOLEAN : CbEditMessage(editOk)
    \/ \E data \in CallbackInputs : WebhookReceive(data)
    \/ WebhookProcessUpdate
    \/ WebhookReturn
    \/ \E id \in 1..MaxAttempts, st \in StatusInputs : UsRead(id, st)
    \/ UsSave

Spec == Init /\ [][Next]_vars

\* ------------------------------ pricing: create_order and the preview on catalogs
\* the carts and promo codes tried
Carts ==
    { <<Line(1, 2)>>,
      <<Line(1, 2), Line(1, 3), Line(2, 1)>>,
      <<Line(1, 5), Line(2, 1)>>,
      <<Line(2, 1), Line(1, 2), Line(2, 2)>>,
      <<Line(2, 3), Line(5, 1)>>,
      <<>>,
      <<Line(1, 1), Line(3, 1)>>,
      <<Line(3, 1), Line(4, 1), Line(3, 1)>>,
      <<Line(4, 1), Line(3, 1)>> }

Codes == {None, "SALE10", "sale10", "Sale10", "third", "full", "cent", "old", "from",
          "until", "soon", "off", "nope"}

\* a promo row
Promo(percent, is_active, has_date_window, active_from, active_to) ==
    [percent |-> percent, is_active |-> is_active, has_date_window |-> has_date_window,
     active_from |-> active_from, active_to |-> active_to]

\* a catalog that passes Product.clean and PromoCode.clean: discount prices unset,
\* below the price and zero; percents from 0.01 to 100.00; date windows that ended,
\* that start now, that end now and that have not started; an inactive promo whose
\* window has also ended
InitPricing ==
    /\ products = (1 :> [name |-> "Hoodie", price |-> 10000, discount_price |-> NoPrice,
                         is_active |-> TRUE]
                @@ 2 :> [name |-> "Cap", price |-> 999, discount_price |-> 255,
                         is_active |-> TRUE]
                @@ 3 :> [name |-> "Mug", price |-> 500, discount_price |-> NoPrice,
                         is_active |-> FALSE]
                @@ 5 :> [name |-> "Pin", price |-> 333, discount_price |-> 0,
                         is_active |-> TRUE])
    /\ promos = ("SALE10" :> Promo(1000, TRUE, FALSE, 0, 0)
              @@ "THIRD" :> Promo(3333, TRUE, FALSE, 0, 0)
              @@ "FULL" :> Promo(10000, TRUE, FALSE, 0, 0)
              @@ "CENT" :> Promo(1, TRUE, FALSE, 0, 0)
              @@ "OLD" :> Promo(2500, TRUE, TRUE, 1, 2)
              @@ "FROM" :> Promo(2500, TRUE, TRUE, 5, 9)
              @@ "UNTIL" :> Promo(2500, TRUE, TRUE, 1, 5)
              @@ "SOON" :> Promo(2500, TRUE, TRUE, 6, 9)
              @@ "OFF" :> Promo(5000, FALSE, TRUE, 1, 2))
    /\ now = 5
    /\ botConfig = "active"
    /\ orders = EmptyMap
    /\ items = {}
    /\ notifications = EmptyMap
    /\ seq = [order |-> 1, notification |-> 1, message |-> 1]
    /\ tx = Idle
    /\ dispatch = {}
    /\ cb = Idle
    /\ us = Idle
    /\ channel = EmptyMap
    /\ preview = Idle
    /\ hist = [lastWrite |-> EmptyMap, deleted |-> {}, notifLog |-> EmptyMap,
               escaped |-> FALSE, callbacks |-> 0, updates |-> 0]

NextPricing ==
    \/ \E cart \in Carts, code \in Codes : CreateInsertOrder(cart, code)
    \/ CreateItemsCommit
    \/ CreateFailure
    \/ \E cart \in Carts, code \in Codes : PromoValidate(cart, code)
    \/ PromoValidateRespond

SpecPricing == InitPricing /\ [][NextPricing]_vars

\* --------------------------------------- callbacks and updates on two orders
\* the state after create_order committed the first two requests and both
\* notifications were sent
InitTwoOrders ==
    LET r == <<price_cart(<<Line(1, 2)>>, "sale10", products, promos, now),
               price_cart(<<Line(2, 1), Line(2, 2)>>, None, products, promos, now)>>
    IN /\ products = (1 :> [name |-> "Hoodie", price |-> 10000, discount_price |-> NoPrice,
                            is_active |-> TRUE]
                   @@ 2 :> [name |-> "Cap", price |-> 999, discount_price |-> 255,
                            is_active |-> TRUE]
                   @@ 3 :> [name |-> "Mug", price |-> 500, discount_price |-> NoPrice,
                            is_active |-> FALSE])
       /\ promos = ("SALE10" :> [percent |-> 1000, is_active |-> TRUE,
                                 has_date_window |-> FALSE, active_from |-> 0, active_to |-> 0]
                 @@ "OLD" :> [percent |-> 2500, is_active |-> TRUE,
                              has_date_window |-> TRUE, active_from |-> 1, active_to |-> 2]
                 @@ "OFF" :> [percent |-> 5000, is_active |-> FALSE,
                              has_date_window |-> FALSE, active_from |-> 0, active_to |-> 0])
       /\ now = 5
       /\ botConfig = "active"
       /\ orders = [i \in 1..2 |->
                      [status |-> STATUS_NEW, full_name |-> "customer",
                       payment_method |-> "cash", promo |-> r[i].promo,
                       subtotal |-> r[i].subtotal,
                       discount_total |-> r[i].discount_total, total |-> r[i].total]]
       /\ items = UNION {order_items(i, r[i].items, r[i].products) : i \in 1..2}
       /\ notifications = [i \in 1..2 |->
                             [order |-> i, status |-> STATUS_SENT,
                              message_id |-> ToString(i), error_message |-> None]]
       /\ seq = [order |-> 3, notification |-> 3, message |-> 3]
       /\ tx = Idle
       /\ dispatch = {}
       /\ cb = Idle
       /\ us = Idle
       /\ channel = [i \in 1..2 |-> i]
       /\ preview = Idle
       /\ hist = [lastWrite |-> [i \in 1..2 |-> STATUS_NEW], deleted |-> {},
                  notifLog |-> [i \in 1..2 |->
                                  [order |-> i,
                                   writes |-> <<STATUS_PENDING, STATUS_SENT>>]],
                  escaped |-> FALSE, callbacks |-> 0, updates |-> 0]

NextCallbacks ==
    \/ \E d \in dispatch : DispGetOrder(d)
    \/ \E d \in dispatch : DispCreateNotification(d)
    \/ \E d \in dispatch, ok \in BOOLEAN : DispSend(d, ok)
    \/ \E d \in dispatch : DispSaveSent(d)
    \/ \E d \in dispatch : DispSaveFailed(d)
    \/ \E data \in CallbackInputs : CbReceive(data)
    \/ \E editOk \in BOOLEAN : CbUpdateOrder(editOk)
    \/ \E editOk \in BOOLEAN : CbDeleteOrder(editOk)
    \/ \E ackOk \in BOOLEAN : CbAnswer(ackOk)
    \/ CbCaught
    \/ \E editOk \in BOOLEAN : CbEditMessage(editOk)
    \/ \E id \in 1..MaxAttempts, st \in StatusInputs : UsRead(id, st)
    \/ UsSave
    \/ \E id \in 1..MaxAttempts, name \in AdminNames : AdminSaveOrder(id, name)

SpecCallbacks == InitTwoOrders /\ [][NextCallbacks]_vars

\* ----------------------------------- status updates on orders in any status
\* the status values requested: the five choices, a missing one and an unknown one
AllStatusInputs == STATUS_CHOICES \cup {"", "shipped"}

\* two committed orders as InitTwoOrders leaves them, each in any status earlier
\* updates can have set
InitAnyStatus ==
    LET r == <<price_cart(<<Line(1, 2)>>, "sale10", products, promos, now),
               price_cart(<<Line(2, 1), Line(2, 2)>>, None, products, promos, now)>>
    IN /\ products = (1 :> [name |-> "Hoodie", price |-> 10000, discount_price |-> NoPrice,
                            is_active |-> TRUE]
                   @@ 2 :> [name |-> "Cap", price |-> 999, discount_price |-> 255,
                            is_active |-> TRUE])
       /\ promos = ("SALE10" :> Promo(1000, TRUE, FALSE, 0, 0))
       /\ now = 5
       /\ botConfig = "active"
       /\ \E st \in [1..2 -> STATUS_CHOICES] :
             /\ orders = [i \in 1..2 |->
                            [status |-> st[i], full_name |-> "customer",
                             payment_method |-> "cash", promo |-> r[i].promo,
                             subtotal |-> r[i].subtotal,
                             discount_total |-> r[i].discount_total,
                             total |-> r[i].total]]
             /\ hist = [lastWrite |-> st, deleted |-> {},
                        notifLog |-> [i \in 1..2 |->
                                        [order |-> i,
                                         writes |-> <<STATUS_PENDING, STATUS_SENT>>]],
                        escaped |-> FALSE, callbacks |-> 0, updates |-> 0]
       /\ items = UNION {order_items(i, r[i].items, r[i].products) : i \in 1..2}
       /\ notifications = [i \in 1..2 |->
                             [order |-> i, status |-> STATUS_SENT,
                              message_id |-> ToString(i), error_message |-> None]]
       /\ seq = [order |-> 3, notification |-> 3, message |-> 3]
       /\ tx = Idle
       /\ dispatch = {}
       /\ cb = Idle
       /\ us = Idle
       /\ channel = [i \in 1..2 |-> i]
       /\ preview = Idle

NextStatus ==
    \/ \E id \in 1..3, st \in AllStatusInputs : UsRead(id, st)
    \/ UsSave
    \/ \E data \in {callback_data("order_success_", 1)} : CbReceive(data)
    \/ \E editOk \in BOOLEAN : CbUpdateOrder(editOk)
    \/ \E ackOk \in BOOLEAN : CbAnswer(ackOk)

SpecStatus == InitAnyStatus /\ [][NextStatus]_vars

\* ------------------------------------ action tokens, character by character
\* a Python str is held as the sequence of its characters
Digits == <<"0", "1", "2", "3", "4", "5", "6", "7", "8", "9">>

ORDER_SUCCESS == <<"o", "r", "d", "e", "r", "_", "s", "u", "c", "c", "e", "s", "s", "_">>

ORDER_CANCEL == <<"o", "r", "d", "e", "r", "_", "c", "a", "n", "c", "e", "l", "_">>

\* str(order.id) inside the f-string: the decimal digits of a positive integer
RECURSIVE str_id(_)
str_id(n) == IF n < 10 THEN <<Digits[n + 1]>>
             ELSE Append(str_id(n \div 10), Digits[(n % 10) + 1])

\* f"order_success_{order.id}" and f"order_cancel_{order.id}"
format_callback_data(prefix, id) == prefix \o str_id(id)

\* str.startswith
startswith(s, prefix) == Len(s) >= Len(prefix) /\ SubSeq(s, 1, Len(prefix)) = prefix

\* (a replace that removes nothing)
replace_nothing(s, old) == s

\* str.replace(old, ''): every occurrence of old is removed, left to right
RECURSIVE replace_from(_, _)
replace_from(s, old) ==
    IF s = <<>> THEN <<>>
    ELSE IF startswith(s, old) THEN replace_from(SubSeq(s, Len(old) + 1, Len(s)), old)
    ELSE <<Head(s)>> \o replace_from(Tail(s), old)

replace(s, old) == replace_from(s, old)

\* int(value) in the id lookup: the number a string of digits denotes, and 0 where
\* int raises ValueError
RECURSIVE int_from(_, _)
int_from(s, acc) ==
    IF s = <<>> THEN acc
    ELSE IF \E i \in 0..9 : Digits[i + 1] = Head(s)
    THEN int_from(Tail(s), 10 * acc + (CHOOSE i \in 0..9 : Digits[i + 1] = Head(s)))
    ELSE 0

int(s) == IF s = <<>> THEN 0 ELSE int_from(s, 0)

\* the branch _handle_callback_query and handle_callback_query take for query.data,
\* and the order the handler looks up
route(data) ==
    IF startswith(data, ORDER_SUCCESS)
    THEN [handler |-> "_handle_order_success", order_id |-> int(replace(data, ORDER_SUCCESS))]
    ELSE IF startswith(data, ORDER_CANCEL)
    THEN [handler |-> "_handle_order_cancel", order_id |-> int(replace(data, ORDER_CANCEL))]
    ELSE [handler |-> "unknown", order_id |-> 0]

\* a button of the notification of order id is pressed, and the query is routed
TokenRoute(id, prefix) ==
    /\ cb.pc = "idle"
    /\ cb' = [pc |-> "routed", order |-> id, prefix |-> prefix,
              data |-> format_callback_data(prefix, id),
              route |-> route(format_callback_data(prefix, id))]
    /\ UNCHANGED <<catalogVars, orders, items, notifications, seq, tx, dispatch, us,
                   channel, hist>>

\* the handler is done
TokenDone ==
    /\ cb.pc = "routed"
    /\ cb' = Idle
    /\ UNCHANGED <<catalogVars, orders, items, notifications, seq, tx, dispatch, us,
                   channel, hist>>

NextTokens ==
    \/ \E id \in 1..MaxOrderId, prefix \in {ORDER_SUCCESS, ORDER_CANCEL} :
          TokenRoute(id, prefix)
    \/ TokenDone

SpecTokens == InitTwoOrders /\ [][NextTokens]_vars

\* ------------------------------- catalog writes (catalog/views.py, serializers.py)
\* ProductCreateUpdateSerializer.validate on the fields a PATCH carries: a discount
\* price that is not null is compared with the price of the same request, and with 0
\* when the request carries no price
validate(data) ==
    IF "discount_price" \in DOMAIN data /\ data.discount_price # NoPrice
    THEN IF data.discount_price >= (IF "price" \in DOMAIN data THEN data.price ELSE 0)
         THEN "ValidationError"
         ELSE "OK"
    ELSE "OK"

\* serializer.save(): the fields of the request are set on the row; Model.save() runs
\* no clean()
update(row, data) ==
    [name |-> IF "name" \in DOMAIN data THEN data.name ELSE row.name,
     price |-> IF "price" \in DOMAIN data THEN data.price ELSE row.price,
     discount_price |-> IF "discount_price" \in DOMAIN data THEN data.discount_price
                        ELSE row.discount_price,
     is_active |-> IF "is_active" \in DOMAIN data THEN data.is_active ELSE row.is_active]

\* (a product save that copies the product's name and price into the order lines)
refresh_snapshots(its, pid, row) ==
    {IF it.product = pid
     THEN [it EXCEPT !.name_snapshot = row.name,
                     !.price_snapshot = price_effective(row),
                     !.line_total = price_effective(row) * it.qty]
     ELSE it : it \in its}

\* what saving a Product does to the OrderItem rows that reference it: the snapshot
\* columns are plain columns of OrderItem, and no signal or save() override of
\* Product writes them
on_product_save(its, pid, row) == its

\* the PATCH /api/v1/products/{id}/ requests tried
ProductUpdates ==
    { [price |-> 100],
      [price |-> 2000, discount_price |-> 1500],
      [discount_price |-> NoPrice],
      [discount_price |-> 50],
      [price |-> -500, discount_price |-> NoPrice],
      [name |-> "Cap 2"],
      [is_active |-> FALSE] }

\* ProductViewSet.partial_update: a rejected request changes nothing
ProductPartialUpdate(pid, data) ==
    /\ pid \in DOMAIN products
    /\ IF validate(data) = "OK"
       THEN /\ products' = Put(products, pid, update(products[pid], data))
            /\ items' = on_product_save(items, pid, update(products[pid], data))
       ELSE UNCHANGED <<products, items>>
    /\ UNCHANGED <<promos, now, botConfig, orders, notifications, seq, tx, dispatch, cb,
                   us, channel, preview, hist>>

\* the carts and codes ordered while the catalog is edited
CatalogCarts == { <<Line(2, 3)>>, <<Line(1, 1), Line(2, 2)>> }

CatalogCodes == {None, "sale10"}

NextCatalog ==
    \/ \E cart \in CatalogCarts, code \in CatalogCodes : CreateInsertOrder(cart, code)
    \/ CreateItemsCommit
    \/ CreateFailure
    \/ \E data \in ProductUpdates : ProductPartialUpdate(2, data)

SpecCatalog == InitPricing /\ [][NextCatalog]_vars

\* ------------------------------------------------------------------ properties
\* the rows of order id in the tables ords and its are a fully formed order for cart:
\* one Order row and one OrderItem per distinct product id of the cart
FullyFormed(ords, its, id, cart) ==
    LET pids == {cart[i].product_id : i \in DOMAIN cart}
    IN /\ id \in DOMAIN ords
       /\ pids # {}
       /\ {it.product : it \in ItemsOf(its, id)} = pids
       /\ Cardinality(ItemsOf(its, id)) = Cardinality(pids)

\* C1: create_order is all-or-nothing. Every step of a create_order call either leaves
\* the committed Order and OrderItem rows exactly as they were (the call is still
\* running, or it failed and rolled back), or it is the commit, which adds exactly one
\* Order row, with one OrderItem per distinct product id of the cart, and touches no
\* other row.
C1_CreateOrderAllOrNothing ==
    [][tx' # tx =>
          \/ orders' = orders /\ items' = items
          \/ /\ tx.pc = "order_inserted"
             /\ tx.id \notin DOMAIN orders
             /\ ItemsOf(items, tx.id) = {}
             /\ DOMAIN orders' = (DOMAIN orders) \cup {tx.id}
             /\ \A i \in DOMAIN orders : orders'[i] = orders[i]
             /\ items \subseteq items'
             /\ items' \ items = ItemsOf(items', tx.id)
             /\ FullyFormed(orders', items', tx.id, tx.cart)]_vars

\* C1 witness: a call that failed after its Order row was inserted left nothing, and
\* the next call committed a fully formed order
C1_Witness ==
    /\ tx.pc = "idle"
    /\ seq.order = 3
    /\ DOMAIN orders = {2}
    /\ 1 \notin DOMAIN hist.lastWrite
    /\ ItemsOf(items, 1) = {}
    /\ Cardinality(ItemsOf(items, 2)) = 1

\* C2: deletion by the cancel callback is one-way. An order id the cancel handler has
\* deleted has no Order row in any later state, whatever confirm callbacks, cancel
\* callbacks and status updates on that id are interleaved with the deletion.
C2_DeletionIsOneWay ==
    \A id \in hist.deleted : id \notin DOMAIN orders

\* C3: no Order exists without its items. Every existing Order has a non-empty
\* OrderItem set in every reachable state.
C3_EveryOrderHasItems ==
    \A id \in DOMAIN orders : ItemsOf(items, id) # {}

\* C4: when process_update has finished a callback event that carries the success token
\* of an existing order, that order's stored status is confirmed.
C4_ProcessUpdateConfirms ==
    [][(/\ cb.pc = "process_update"
        /\ cb'.pc \in {"returned", "answer"}
        /\ cb.data[1] = "order_success_"
        /\ to_python(cb.data[2]) \in DOMAIN orders)
       => /\ to_python(cb.data[2]) \in DOMAIN orders'
          /\ orders'[to_python(cb.data[2])].status = STATUS_CONFIRMED]_vars

\* C5: a failed send, or a missing or inactive bot configuration, never undoes order
\* creation. A step of a dispatch thread leaves the Order and OrderItem rows as they
\* were; no exception leaves the thread; and the thread that recorded a failure for an
\* order that is still there leaves that order's GroupNotification failed, with a
\* non-empty error_message.
C5_SendFailureIsIsolated ==
    [][(\E d \in dispatch : d \notin dispatch')
       => /\ orders' = orders
          /\ items' = items
          /\ ~hist'.escaped
          /\ \A d \in dispatch \ dispatch' :
                (d.pc = "save_failed" /\ d.id \in DOMAIN orders)
                => /\ d.nid \in DOMAIN notifications'
                   /\ notifications'[d.nid].order = d.id
                   /\ notifications'[d.nid].status = STATUS_FAILED
                   /\ notifications'[d.nid].error_message \notin {None, ""}]_vars

\* C5 witness: the send failed with the bot configured and active; the order is still
\* there with its items and its notification is failed with the error's text
C5_Witness ==
    /\ botConfig = "active"
    /\ dispatch = {}
    /\ 1 \in DOMAIN orders
    /\ ItemsOf(items, 1) # {}
    /\ \E n \in DOMAIN notifications :
          /\ notifications[n].order = 1
          /\ notifications[n].status = STATUS_FAILED
          /\ notifications[n].error_message = "Test error"

\* the create_order call that took order id committed
Committed(id) == id \in DOMAIN hist.lastWrite

\* nothing of the dispatcher exists for an order id whose creation has not committed:
\* no thread, no GroupNotification ever created, no message in the channel
NoDispatchBeforeCommit ==
    /\ \A d \in dispatch : Committed(d.id)
    /\ \A n \in DOMAIN hist.notifLog : Committed(hist.notifLog[n].order)
    /\ \A n \in DOMAIN notifications : Committed(notifications[n].order)
    /\ \A m \in DOMAIN channel : Committed(channel[m])

C7_OneNotificationPerOrder ==
    \A n, m \in DOMAIN hist.notifLog :
        hist.notifLog[n].order = hist.notifLog[m].order => n = m

\* C8: a GroupNotification is written pending first and then at most once more, as sent
\* or as failed; a sent row carries the message id the channel returned for its order,
\* a failed row carries an error_message and belongs to a send that did not succeed
\* (it has no message id).
C8_NotificationLifecycle ==
    /\ \A n \in DOMAIN hist.notifLog :
          hist.notifLog[n].writes \in {<<STATUS_PENDING>>,
                                       <<STATUS_PENDING, STATUS_SENT>>,
                                       <<STATUS_PENDING, STATUS_FAILED>>}
    /\ \A n \in DOMAIN notifications :
          /\ notifications[n].status = STATUS_PENDING
             => notifications[n].message_id = None /\ notifications[n].error_message = None
          /\ notifications[n].status = STATUS_SENT
             => /\ \E m \in DOMAIN channel : /\ ToString(m) = notifications[n].message_id
                                              /\ channel[m] = notifications[n].order
                /\ notifications[n].error_message = None
          /\ notifications[n].status = STATUS_FAILED
             => /\ notifications[n].error_message \notin {None, ""}
                /\ notifications[n].message_id = None

\* C9: configuration resolution fails with 'not configured' without a BotConfig row and
\* with 'inactive' when its is_active is false; the dispatch thread then attempts no
\* send (the channel gets no message), moves to record the failure with that error's
\* text, and after recording it ends without starting anything again.
C9_ConfigFailsFast ==
    [][/\ botConfig # "active" => channel' = EmptyMap
       /\ \A d \in dispatch \ dispatch' :
             /\ (d.pc = "send" /\ botConfig = "none")
                => [d EXCEPT !.pc = "save_failed",
                             !.error = error_text("BotNotConfiguredError")] \in dispatch'
             /\ (d.pc = "send" /\ botConfig = "inactive")
                => [d EXCEPT !.pc = "save_failed",
                             !.error = error_text("BotInactiveError")] \in dispatch'
             /\ d.pc = "save_failed"
                => /\ dispatch' = dispatch \ {d}
                   /\ channel' = channel
                   /\ d.id \in DOMAIN orders
                      => /\ d.nid \in DOMAIN notifications'
                         /\ notifications'[d.nid].status = STATUS_FAILED
                         /\ notifications'[d.nid].error_message = d.error]_vars

\* C9 witness: the bot is inactive, the thread has ended, the notification is failed
\* with the 'inactive' text and the channel has no message
C9_Witness ==
    /\ botConfig = "inactive"
    /\ dispatch = {}
    /\ channel = EmptyMap
    /\ \E n \in DOMAIN notifications :
          /\ notifications[n].status = STATUS_FAILED
          /\ notifications[n].error_message = error_text("BotInactiveError")

\* C10: last write wins on the status. In every state the stored status of every
\* existing order is the status of the last write committed for it, whether that was
\* create_order, the confirm callback or update_status, and it is one of the five
\* values of STATUS_CHOICES.
C10_LastWriteWins ==
    \A id \in DOMAIN orders :
        /\ orders[id].status = hist.lastWrite[id]
        /\ orders[id].status \in STATUS_CHOICES

\* C10 witness: update_status read the order while it was new, the confirm callback
\* wrote confirmed, and update_status then wrote its own status over it
C10_Witness ==
    /\ 1 \in DOMAIN orders
    /\ 1 \notin hist.deleted
    /\ hist.updates = 1
    /\ us.pc = "idle"
    /\ cb.pc = "answer"
    /\ cb.answer = "closed"
    /\ orders[1].status = STATUS_CONTACTED

\* the Order, OrderItem and GroupNotification rows are what they were
RowsUnchanged == UNCHANGED <<orders, items, notifications>>

\* C11: process_update returns a result value and raises nothing to its caller. Every
\* step that ends process_update for an update leaves it returned, with a result whose
\* status is 'ok' or 'error'.
C11_ProcessUpdateReturns ==
    [][(/\ cb.pc = "process_update"
        /\ cb' # cb
        /\ cb'.pc \notin {"update_order", "delete_order", "answer"})
       => /\ cb'.pc = "returned"
          /\ cb'.result.status \in {"ok", "error"}]_vars

\* C11 witness: process_update has returned its error result for the cancel token of
\* an existing order
C11_Witness ==
    /\ cb.pc = "returned"
    /\ cb.data = callback_data("order_cancel_", 1)
    /\ 1 \in DOMAIN orders
    /\ cb.result.status = "error"

\* C13: a confirm or cancel action whose (numeric) order id matches no existing order
\* is a no-op. The handler goes on to answer 'not found', none of its steps lets an
\* exception out of the handler, and none changes an Order, OrderItem or
\* GroupNotification row.
C13_NotFoundIsNoOp ==
    [][/\ (/\ hist'.callbacks # hist.callbacks
           /\ cb'.pc = "answer"
           /\ cb'.handler \in {"_handle_order_success", "_handle_order_cancel"}
           /\ cb'.id # 0)
          => cb'.answer = "not_found" /\ ~cb'.found /\ RowsUnchanged
       /\ (/\ cb.pc = "answer"
           /\ cb.handler \in {"_handle_order_success", "_handle_order_cancel"}
           /\ cb.id # 0
           /\ ~cb.found
           /\ cb' # cb)
          => cb'.pc # "raised" /\ RowsUnchanged]_vars

\* C14: an action token that is neither a confirm token nor a cancel token is
\* acknowledged with the unknown-command notice and changes no Order, OrderItem or
\* GroupNotification row. Every callback query taken is either handed to the confirm
\* or cancel handler or is about to be answered 'unknown'.
C14_OtherTokensAnsweredUnknown ==
    [][hist'.callbacks # hist.callbacks
       => \/ cb'.pc \in {"update_order", "delete_order"}
          \/ /\ cb'.pc = "answer"
             /\ cb'.handler \in {"_handle_order_success", "_handle_order_cancel"}
          \/ /\ cb'.pc = "answer"
             /\ cb'.answer = "unknown"
             /\ RowsUnchanged]_vars

\* C12: the cancel action on an existing order deletes that Order row and all of its
\* OrderItems, leaves every row of every other order as it was, and the summary put
\* into the edited message is the one the handler captured, from the order it had
\* read, before the deletion.
C12_CancelDeletesOrderAndItems ==
    [][(cb.pc = "delete_order" /\ cb' # cb)
       => /\ cb.id \in DOMAIN orders
          /\ cb.id \notin DOMAIN orders'
          /\ ItemsOf(items', cb.id) = {}
          /\ items' \subseteq items
          /\ \A i \in (DOMAIN orders) \ {cb.id} :
                /\ i \in DOMAIN orders'
                /\ orders'[i] = orders[i]
                /\ ItemsOf(items', i) = ItemsOf(items, i)
                /\ \A n \in NotificationsOf(notifications, i) :
                      n \in DOMAIN notifications' /\ notifications'[n] = notifications[n]
          /\ cb'.answer = "canceled"
             => cb'.edited = [order_id |-> cb.id,
                              full_name |-> cb.order.full_name,
                              total |-> cb.order.total]]_vars

\* C12 witness: order 1 was canceled, its rows are gone, order 2 and its rows are
\* all there, and the message shows the summary of order 1
C12_Witness ==
    /\ cb.pc = "answer"
    /\ cb.answer = "canceled"
    /\ cb.edited.order_id = 1
    /\ cb.edited.total = 18000
    /\ DOMAIN orders = {2}
    /\ ItemsOf(items, 1) = {}
    /\ ItemsOf(items, 2) # {}
    /\ NotificationsOf(notifications, 2) # {}

\* C15: every persisted Order has total = subtotal - discount_total with subtotal,
\* discount_total and total all non-negative, in every reachable state (after
\* create_order, after a confirm callback and after a status update).
C15_MoneyInvariant ==
    \A id \in DOMAIN orders :
        /\ orders[id].total = orders[id].subtotal - orders[id].discount_total
        /\ orders[id].subtotal >= 0
        /\ orders[id].discount_total >= 0
        /\ orders[id].total >= 0

\* the sum over the lines of cart of effective price times quantity
RECURSIVE LineSum(_, _)
LineSum(cart, prods) ==
    IF cart = <<>> THEN 0
    ELSE price_effective(prods[Head(cart).product_id]) * Head(cart).qty
         + LineSum(Tail(cart), prods)

\* d is n / den rounded to the nearest integer, a half going up
IsHalfUp(d, n, den) == -den < 2 * den * d - 2 * n /\ 2 * den * d - 2 * n <= den

\* C16: for every valid cart create_order prices, subtotal is the sum over the lines
\* of effective price times quantity; with a promo of percent p, discount_total is
\* subtotal * p / 100 rounded half up to two places; with no promo it is 0; total is
\* subtotal - discount_total and lies between 0 and subtotal. 100.00 x 2 with a 10%
\* promo gives 200.00 / 20.00 / 180.00.
C16_PricingFormula ==
    tx.pc = "order_inserted"
    => LET sub == LineSum(tx.cart, tx.priced.products)
           o == tx.order
       IN /\ o.subtotal = sub
          /\ tx.promo_code \in {None, ""} => o.discount_total = 0 /\ o.promo = None
          /\ tx.promo_code \notin {None, ""}
             => /\ o.promo \in DOMAIN promos
                /\ IsHalfUp(o.discount_total, sub * promos[o.promo].percent, 10000)
          /\ o.total = sub - o.discount_total
          /\ 0 <= o.total
          /\ o.total <= sub
          /\ (tx.cart = <<Line(1, 2)>> /\ tx.promo_code = "sale10")
             => o.subtotal = 20000 /\ o.discount_total = 2000 /\ o.total = 18000

\* the quantity the lines of cart give product pid in total
RECURSIVE QtySum(_, _)
QtySum(cart, pid) ==
    IF cart = <<>> THEN 0
    ELSE (IF Head(cart).product_id = pid THEN Head(cart).qty ELSE 0)
         + QtySum(Tail(cart), pid)

\* the monetary result of pricing
Money(r) == IF r.code = "OK" THEN <<r.code, r.subtotal, r.discount_total, r.total>>
            ELSE <<r.code>>

\* C17: deduplication leaves each product id of the cart exactly once, with the sum of
\* the quantities its lines had; pricing the cart gives the same subtotal, discount
\* and total as pricing the merged cart, the order is created from the merged lines,
\* and deduplicating the merged cart changes nothing. [{A,2},{A,3},{B,1}] is priced
\* as [{A,5},{B,1}].
C17_Deduplication ==
    tx.pc \in {"raised", "order_inserted"}
    => LET d == deduplicate_items(tx.cart)
           r == price_cart(tx.cart, tx.promo_code, products, promos, now)
       IN /\ \A i, j \in DOMAIN d : d[i].product_id = d[j].product_id => i = j
          /\ {d[i].product_id : i \in DOMAIN d}
             = {tx.cart[i].product_id : i \in DOMAIN tx.cart}
          /\ \A i \in DOMAIN d : d[i].qty = QtySum(tx.cart, d[i].product_id)
          /\ deduplicate_items(d) = d
          /\ Money(r) = Money(price_cart(d, tx.promo_code, products, promos, now))
          /\ tx.pc = "order_inserted"
             => /\ tx.priced.items = d
                /\ Money(tx.priced) = Money(r)
          /\ tx.cart = <<Line(1, 2), Line(1, 3), Line(2, 1)>>
             => /\ d = <<Line(1, 5), Line(2, 1)>>
                /\ Money(r) = Money(price_cart(<<Line(1, 5), Line(2, 1)>>, tx.promo_code,
                                               products, promos, now))

\* C17 witness: a cart with a repeated product id was priced, and merged into two lines
C17_Witness ==
    /\ tx.pc = "order_inserted"
    /\ tx.cart = <<Line(1, 2), Line(1, 3), Line(2, 1)>>
    /\ Len(tx.priced.items) = 2
    /\ tx.order.subtotal = 50255

\* the lines of cart whose product is absent or inactive
Offending(cart, prods) ==
    {i \in DOMAIN cart : \/ cart[i].product_id \notin DOMAIN prods
                         \/ ~prods[cart[i].product_id].is_active}

\* C18: cart validation fails with EmptyCart for an empty cart; otherwise it fails on
\* the first line, in cart order, whose product is absent (ProductNotFound with that
\* id) or inactive (ProductInactive with that id); it passes, returning the products
\* of all lines, only when every line's product exists and is active.
C18_FirstOffendingLine ==
    tx.pc \in {"raised", "order_inserted"}
    => LET bad == Offending(tx.cart, products)
       IN /\ tx.cart = <<>> => tx.pc = "raised" /\ tx.code = "EMPTY_CART"
          /\ bad # {}
             => LET first == CHOOSE i \in bad : \A j \in bad : i <= j
                    pid == tx.cart[first].product_id
                IN /\ tx.pc = "raised"
                   /\ tx.id = pid
                   /\ tx.code = IF pid \notin DOMAIN products THEN "PRODUCT_NOT_FOUND"
                                ELSE "PRODUCT_INACTIVE"
          /\ (tx.cart # <<>> /\ bad = {})
             => /\ tx.pc = "raised"
                   => tx.code \in {"PROMO_NOT_FOUND", "PROMO_INACTIVE", "PROMO_EXPIRED"}
                /\ tx.pc = "order_inserted"
                   => /\ DOMAIN tx.priced.products
                         = {tx.cart[i].product_id : i \in DOMAIN tx.cart}
                      /\ \A pid \in DOMAIN tx.priced.products :
                            tx.priced.products[pid] = products[pid]

\* C18 witness: the first line's product is inactive, a later line's product is
\* absent, and the error is the inactive one
C18_Witness ==
    /\ tx.pc = "raised"
    /\ tx.cart = <<Line(3, 1), Line(4, 1), Line(3, 1)>>
    /\ tx.code = "PRODUCT_INACTIVE"
    /\ tx.id = 3

\* a promo is valid now: active, and without a date window or inside it
ValidNow(promo, t) ==
    /\ promo.is_active
    /\ ~promo.has_date_window \/ (promo.active_from <= t /\ t <= promo.active_to)

\* the promo codes that are code up to letter case
Matching(code, proms) ==
    {k \in DOMAIN proms :
        \E variants \in {{"SALE10", "sale10", "Sale10"}, {"THIRD", "third"},
                         {"FULL", "full"}, {"CENT", "cent"}, {"OLD", "old"},
                         {"FROM", "from"}, {"UNTIL", "until"}, {"SOON", "soon"},
                         {"OFF", "off"}, {"NOPE", "nope"}} :
            k \in variants /\ code \in variants}

\* C19: promo validation fails with PromoNotFound when no promo matches the code up to
\* letter case, else with PromoInactive when is_active is false, else with
\* PromoExpired when the promo has a date window and now is outside it, and else
\* returns the promo; it succeeds exactly when the promo is valid now, and codes that
\* differ only in case give the same promo and the same discount.
C19_PromoValidation ==
    (/\ tx.pc \in {"raised", "order_inserted"}
     /\ tx.cart # <<>>
     /\ Offending(tx.cart, products) = {}
     /\ tx.promo_code \notin {None, ""})
    => LET m == Matching(tx.promo_code, promos)
       IN /\ m = {} => tx.pc = "raised" /\ tx.code = "PROMO_NOT_FOUND"
          /\ \A k \in m :
                /\ ~promos[k].is_active => tx.pc = "raised" /\ tx.code = "PROMO_INACTIVE"
                /\ (/\ promos[k].is_active
                    /\ promos[k].has_date_window
                    /\ ~(promos[k].active_from <= now /\ now <= promos[k].active_to))
                   => tx.pc = "raised" /\ tx.code = "PROMO_EXPIRED"
                /\ ValidNow(promos[k], now) <=> tx.pc = "order_inserted"
                /\ tx.pc = "order_inserted"
                   => /\ tx.order.promo = k
                      /\ Money(tx.priced)
                         = Money(price_cart(tx.cart, k, products, promos, now))

\* C19 witness: a lower-case code resolved to its promo exactly at the end of the
\* promo's date window
C19_Witness ==
    /\ tx.pc = "order_inserted"
    /\ tx.promo_code = "until"
    /\ tx.order.promo = "UNTIL"
    /\ promos["UNTIL"].active_to = now
    /\ tx.order.discount_total > 0

\* C20: the preview of a valid cart with a promo that is not found, inactive or
\* expired answers HTTP 200 with is_valid false, the matching error code, discount 0,
\* and subtotal and total both the subtotal of the cart priced with no promo; answering
\* a preview changes no stored row.
C20_PreviewInvalidPromo ==
    [][preview' # preview
       => /\ UNCHANGED <<products, promos, orders, items, notifications, seq>>
          /\ (/\ preview'.pc = "response"
              /\ preview'.cart # <<>>
              /\ Offending(preview'.cart, products) = {}
              /\ preview'.code \notin {None, ""}
              /\ \A k \in Matching(preview'.code, promos) : ~ValidNow(promos[k], now))
             => LET m == Matching(preview'.code, promos)
                    sub == str(LineSum(preview'.cart, products))
                    r == preview'.response
                IN /\ r.http = 200
                   /\ r.is_valid = FALSE
                   /\ r.error_code
                      = IF m = {} THEN "PROMO_NOT_FOUND"
                        ELSE IF \E k \in m : ~promos[k].is_active THEN "PROMO_INACTIVE"
                        ELSE "PROMO_EXPIRED"
                   /\ r.discount = "0.00"
                   /\ r.subtotal = sub
                   /\ r.total = sub
                   /\ sub = str(price_cart(preview'.cart, None, products, promos,
                                           now).subtotal)]_vars

\* C20 witness: 100.00 x 2 previewed with an unknown code
C20_Witness ==
    /\ preview.pc = "response"
    /\ preview.cart = <<Line(1, 2)>>
    /\ preview.code = "nope"
    /\ preview.response.http = 200
    /\ preview.response.error_code = "PROMO_NOT_FOUND"
    /\ preview.response.subtotal = "200.00"
    /\ preview.response.total = "200.00"
    /\ preview.response.discount = "0.00"

\* C21: OrderItem snapshots are immutable. A step that changes a product's price,
\* discount price, name or active flag leaves every OrderItem row (name_snapshot,
\* price_snapshot, qty, line_total) and every Order row (subtotal, discount_total,
\* total) as it was.
C21_SnapshotsImmutable ==
    [][products' # products => orders' = orders /\ items' = items]_vars

\* C21 witness: an order of three caps at 2.55 keeps its snapshot after the cap was
\* renamed, repriced and deactivated
C21_Witness ==
    /\ products[2].name = "Cap 2"
    /\ price_effective(products[2]) = 1500
    /\ ~products[2].is_active
    /\ \E it \in items :
          /\ it.product = 2
          /\ it.name_snapshot = "Cap"
          /\ it.price_snapshot = 255
          /\ it.qty = 3
          /\ it.line_total = 765
          /\ it.order \in DOMAIN orders
          /\ orders[it.order].subtotal = 765

\* C24: a product's effective price is its discount price if a discount price is set
\* and is less than the base price, and its base price otherwise (no discount price,
\* a discount price of zero, a discount price not less than the base price).
C24_EffectivePrice ==
    \A pid \in DOMAIN products :
        price_effective(products[pid])
        = IF /\ products[pid].discount_price # NoPrice
             /\ products[pid].discount_price # 0
             /\ products[pid].discount_price < products[pid].price
          THEN products[pid].discount_price
          ELSE products[pid].price

\* C25: every OrderItem create_order persists has qty > 0, the effective price and the
\* name of the product as the call's validation step resolved it, and line_total =
\* price_snapshot * qty; the new order is stored with status new.
C25_ItemsAsValidated ==
    [][(tx.pc = "order_inserted" /\ orders' # orders)
       => /\ tx.id \in DOMAIN orders'
          /\ orders'[tx.id].status = STATUS_NEW
          /\ ItemsOf(items', tx.id) # {}
          /\ \A it \in ItemsOf(items', tx.id) :
                /\ it.qty > 0
                /\ it.product \in DOMAIN tx.priced.products
                /\ it.price_snapshot = price_effective(tx.priced.products[it.product])
                /\ it.name_snapshot = tx.priced.products[it.product].name
                /\ it.line_total = it.price_snapshot * it.qty]_vars

\* C25 witness: the order was committed after the catalog changed under the open call,
\* and its line carries the name and the price the call had resolved
C25_Witness ==
    /\ tx.pc = "idle"
    /\ products[2].name = "Cap 2"
    /\ products[2].discount_price = NoPrice
    /\ \E id \in DOMAIN orders :
          /\ orders[id].status = STATUS_NEW
          /\ orders[id].subtotal = 10510
          /\ \E it \in ItemsOf(items, id) :
                it.product = 2 /\ it.name_snapshot = "Cap" /\ it.price_snapshot = 255
                /\ it.qty = 2 /\ it.line_total = 510

\* the sum of the line_total values of a set of OrderItem rows
RECURSIVE LineTotals(_)
LineTotals(its) ==
    IF its = {} THEN 0
    ELSE LET it == CHOOSE x \in its : TRUE
         IN it.line_total + LineTotals(its \ {it})

\* C30: for every order created by create_order, the stored subtotal equals the sum of
\* the line_total values of the order's OrderItems.
C30_SubtotalIsSumOfLines ==
    \A id \in DOMAIN orders : orders[id].subtotal = LineTotals(ItemsOf(items, id))

\* C30 witness: an order with two lines, 500.00 + 2.55
C30_Witness ==
    \E id \in DOMAIN orders :
        /\ Cardinality(ItemsOf(items, id)) = 2
        /\ orders[id].subtotal = 50255
        /\ {it.line_total : it \in ItemsOf(items, id)} = {50000, 255}

\* C22: the pricing engine has no side effects. A step in which create_order or the
\* preview runs the engine changes no stored Product, PromoCode, Order, OrderItem or
\* GroupNotification, and when both were called with the same cart and code on the
\* same catalog and promo state they give the same outcome: the same error, or the
\* same promo, subtotal, discount and total.
C22_PricingHasNoSideEffects ==
    [][((tx.pc = "idle" /\ tx'.pc \in {"raised", "order_inserted"})
        \/ (preview.pc = "idle" /\ preview'.pc = "response"))
       => /\ UNCHANGED <<products, promos, orders, items, notifications>>
          /\ (/\ tx'.pc \in {"raised", "order_inserted"}
              /\ preview'.pc = "response"
              /\ preview'.cart = tx'.cart
              /\ preview'.code = tx'.promo_code
              /\ preview'.cart # <<>>
              /\ preview'.code \notin {None, ""})
             => IF tx'.pc = "raised"
                THEN preview'.response.error_code = tx'.code
                ELSE /\ preview'.response.http = 200
                     /\ preview'.response.is_valid
                     /\ preview'.response.promo.code = tx'.order.promo
                     /\ preview'.response.subtotal = str(tx'.order.subtotal)
                     /\ preview'.response.discount = str(tx'.order.discount_total)
                     /\ preview'.response.total = str(tx'.order.total)]_vars

\* C22 witness: create_order and the preview priced the same cart with the same code
C22_Witness ==
    /\ tx.pc = "order_inserted"
    /\ preview.pc = "response"
    /\ tx.cart = <<Line(2, 3), Line(5, 1)>>
    /\ preview.cart = tx.cart
    /\ tx.promo_code = "third"
    /\ preview.code = "third"
    /\ preview.response.subtotal = "10.98"
    /\ preview.response.discount = "3.66"
    /\ preview.response.total = "7.32"
    /\ orders = EmptyMap

\* C23: update_status on an existing order accepts exactly the five values new,
\* contacted, confirmed, canceled and delivered, whatever the order's current status:
\* it sets the status and echoes the old and the new one. Any other value, or none, is
\* answered 400 (INVALID_STATUS with the list of the five for an unknown value) and an
\* unknown order id 404, and neither changes a row.
C23_UpdateStatus ==
    [][us' # us
       => LET five == {"new", "contacted", "confirmed", "canceled", "delivered"}
          IN IF us.pc = "idle"
             THEN /\ RowsUnchanged
                  /\ (us'.id \in DOMAIN orders /\ us'.new_status \in five)
                     <=> us'.pc = "save"
                  /\ us'.pc = "save"
                     => us'.id \in DOMAIN orders /\ us'.new_status \in five
                  /\ us'.pc = "idle"
                     => /\ us'.id \notin DOMAIN orders
                           => /\ us'.response.http = 404
                              /\ us'.response.error_code = "ORDER_NOT_FOUND"
                        /\ us'.id \in DOMAIN orders
                           => /\ us'.new_status \notin five
                              /\ us'.response.http = 400
                              /\ us'.response.valid_statuses = five
                              /\ us'.new_status # ""
                                 => us'.response.error_code = "INVALID_STATUS"
             ELSE /\ us.id \in DOMAIN orders'
                  /\ orders'[us.id].status = us.new_status
                  /\ \A i \in DOMAIN orders \ {us.id} :
                        i \in DOMAIN orders' /\ orders'[i] = orders[i]
                  /\ items' = items
                  /\ us'.response = [http |-> 200, order_id |-> us.id,
                                     old_status |-> us.order.status,
                                     new_status |-> us.new_status]]_vars

\* C23 witness: a delivered order was set back to new, and the response echoes both
C23_Witness ==
    /\ us.pc = "idle"
    /\ us # Idle
    /\ us.response.http = 200
    /\ us.response.old_status = STATUS_DELIVERED
    /\ us.response.new_status = STATUS_NEW
    /\ orders[us.id].status = STATUS_NEW

C27_ConfirmChangesOnlyStatus ==
    [][(cb.pc = "update_order" /\ cb' # cb /\ cb.id \in DOMAIN orders)
       => /\ DOMAIN orders' = DOMAIN orders
          /\ orders'[cb.id] = [orders[cb.id] EXCEPT !.status = STATUS_CONFIRMED]
          /\ \A i \in DOMAIN orders \ {cb.id} : orders'[i] = orders[i]]_vars

\* C28: the acknowledgment agrees with the stored state. A handler step that ends in
\* the error notice (error while closing, error while canceling) leaves the targeted
\* order as it was before the event: not set to confirmed, not deleted.
C28_ErrorNoticeMeansNoChange ==
    [][(/\ cb.pc \in {"update_order", "delete_order"}
        /\ cb'.pc = "answer"
        /\ cb'.answer \in {"error_close", "error_cancel"})
       => orders' = orders /\ items' = items]_vars

\* C29: action tokens round-trip. The confirm token and the cancel token built for an
\* order id are routed to the confirm handler and to the cancel handler, with exactly
\* that order id: never another order, never the other action.
C29_TokensRoundTrip ==
    cb.pc = "routed"
    => /\ cb.route.order_id = cb.order
       /\ cb.prefix = ORDER_SUCCESS => cb.route.handler = "_handle_order_success"
       /\ cb.prefix = ORDER_CANCEL => cb.route.handler = "_handle_order_cancel"

\* C29 witness: the cancel token of order 110, 'order_cancel_110'
C29_Witness ==
    /\ cb.pc = "routed"
    /\ cb.order = 110
    /\ cb.data = ORDER_CANCEL \o <<"1", "1", "0">>
    /\ cb.route = [handler |-> "_handle_order_cancel", order_id |-> 110]

====
